---- MODULE Spec2Model ----
(***************************************************************************)
(* zapwrapper.NewLogger (pkg/zapwrapper/zapwrapper.go): a logger that      *)
(* writes to the console and to a freshly named file of a directory, and   *)
(* that removes one entry of the directory when it holds more than         *)
(* maxBackup entries.                                                      *)
(*                                                                         *)
(* Names are byte strings, modelled as sequences of byte values, so that   *)
(* Go's string comparison (bytewise, lexicographic) is computed and not    *)
(* assumed.  An instant is a wall-clock reading, a record of its calendar  *)
(* fields.                                                                 *)
(*                                                                         *)
(* The file system is the POSIX one: a file can be unlinked while a        *)
(* logger holds it open (the logger then writes to a file no directory     *)
(* names), removing a name that is gone or a non-empty subdirectory fails, *)
(* and lumberjack creates the file (and a missing directory) on the first  *)
(* write, not when the logger is built.                                    *)
(***************************************************************************)
EXTENDS Integers, Sequences, FiniteSets

VARIABLES
    maxBackup,  \* the maxBackup argument the caller passes to NewLogger
    logLevel,   \* the logLevel argument the caller passes to NewLogger
    dirState,   \* "absent" | "ok" | "unlistable": what Stat and ReadDir of filepath find
    dir,        \* the names of the direct entries of filepath
    content,    \* content[n]: whose records the file named n holds
    console,    \* whose records os.Stdout has received
    loggers,    \* the loggers NewLogger returned, in call order
    clock,      \* the instant of the latest NewLogger call
    panicked,   \* a NewLogger call panicked
    late,       \* history: some logger wrote its first record after a later call
    start,      \* history: the directory as the first call found it
    race        \* the position and locals of each of two interleaved calls

vars == <<maxBackup, logLevel, dirState, dir, content, console, loggers,
          clock, panicked, late, start, race>>

----------------------------------------------------------------------------
(* Bounds *)

\* The number of NewLogger calls of a run.
MaxCalls == 3

\* The largest maxBackup tried.
MaxK == 1

\* maxBackup is a Go int: negative values are inputs too.
Retentions == (0 - 1)..MaxK

\* zapcore.DebugLevel = -1, zapcore.InfoLevel = 0.  Panic and Fatal records
\* end the process after they are written and are left out.
Levels == {0 - 1, 0}

Years   == {2024}
Months  == {1, 2}
Days    == {1, 2}
Hours   == {0}
Minutes == {0}
Seconds == {0, 1}

\* The instants at which NewLogger may be called: the first second of each
\* day, and every second of the first day of each month.
Instants ==
    {t \in [year : Years, month : Months, day : Days,
            hour : Hours, minute : Minutes, second : Seconds] :
        t.second = 0 \/ t.day = 1}

\* The instants of earlier runs, whose log files the directory may hold.
PastInstants ==
    [year : {2023}, month : {12}, day : {31},
     hour : {23}, minute : {59}, second : {59}]

\* The instant before every call of the run.
Epoch == [year |-> 2023, month |-> 12, day |-> 31,
          hour |-> 23, minute |-> 59, second |-> 59]

----------------------------------------------------------------------------
(* Names *)

\* a < b for Go strings: bytewise lexicographic order, a proper prefix first.
LexLess(a, b) ==
    \E i \in 1..(Len(b)) :
        /\ \A j \in 1..(i - 1) : j <= Len(a) /\ a[j] = b[j]
        /\ i - 1 <= Len(a)
        /\ (i > Len(a) \/ a[i] < b[i])

\* A calendar field printed in two digits, zero padded ('0' is byte 48).
TwoDigits(n) == <<48 + (n \div 10), 48 + (n % 10)>>

\* time.Format("02-01-06_15-04-05"): day-month-year_hour-minute-second.
Format(t) ==
    TwoDigits(t.day) \o <<45>> \o TwoDigits(t.month) \o <<45>> \o
    TwoDigits(t.year % 100) \o <<95>> \o TwoDigits(t.hour) \o <<45>> \o
    TwoDigits(t.minute) \o <<45>> \o TwoDigits(t.second)

\* "logs_" and ".log"
LogPrefix == <<108, 111, 103, 115, 95>>
LogSuffix == <<46, 108, 111, 103>>

\* The entry name of filepath + "/logs_" + timestamp + ".log".
FileName(t) == LogPrefix \o Format(t) \o LogSuffix

\* t1 is earlier than t2 on the wall clock.
Before(t1, t2) ==
    LexLess(<<t1.year, t1.month, t1.day, t1.hour, t1.minute, t1.second>>,
            <<t2.year, t2.month, t2.day, t2.hour, t2.minute, t2.second>>)

\* Entries that are not log files: "app.pid", a file; "archive", a
\* subdirectory that is not empty; both sort before "logs_".
AppPid  == <<97, 112, 112, 46, 112, 105, 100>>
Archive == <<97, 114, 99, 104, 105, 118, 101>>
Foreign == {AppPid, Archive}
NonEmptyDirs == {Archive}

OldLogs == {FileName(t) : t \in PastInstants}
LogNames == {FileName(t) : t \in Instants \cup PastInstants}

\* What the directory may hold before the first call.
PreExisting == Foreign \cup OldLogs

----------------------------------------------------------------------------
(* The pruning step of NewLogger *)

\* Mutant of SortByName: the comparison reversed, the names descending.
RECURSIVE SortDescending(_)
SortDescending(S) ==
    IF S = {} THEN <<>>
    ELSE LET m == CHOOSE x \in S : \A y \in S \ {x} : LexLess(y, x)
         IN  <<m>> \o SortDescending(S \ {m})

\* sort.Slice(files, Name(i) < Name(j)): the names in ascending order.
RECURSIVE SortByName(_)
SortByName(S) ==
    IF S = {} THEN <<>>
    ELSE LET m == CHOOSE x \in S : \A y \in S \ {x} : LexLess(x, y)
         IN  <<m>> \o SortByName(S \ {m})

\* os.Stat(filepath) returns no error.
StatOk(state) == state # "absent"

\* Mutant of ReadDir: only the entries named as log files are kept.
ReadDirLogsOnly(state, d) == IF state = "ok" THEN d \cap LogNames ELSE {}

\* files, _ := os.ReadDir(filepath): the entries, none when the listing
\* fails (the error is dropped).
ReadDir(state, d) == IF state = "ok" THEN d ELSE {}

\* Mutants of OverLimit: the threshold off by one, either way.
OverLimitPlusOne(files, k) == Cardinality(files) > k + 1
OverLimitOrEqual(files, k) == Cardinality(files) >= k

\* len(files) > maxBackup
OverLimit(files, k) == Cardinality(files) > k

\* os.Remove succeeds on a name the directory holds that is not a
\* subdirectory with entries of its own.
Removable(n, d) == n \in d /\ n \notin NonEmptyDirs

\* os.Remove(filepath + "/" + name), its error dropped.
Remove(n, d) == IF Removable(n, d) THEN d \ {n} ELSE d

\* Mutant of Prune: entries are removed, smallest name first, until the
\* directory is back at the limit.
RECURSIVE PruneToLimit(_, _, _)
PruneToLimit(state, d, k) ==
    LET files  == ReadDir(state, d)
        sorted == SortByName(files)
    IN  IF StatOk(state) /\ OverLimit(files, k) /\ sorted # <<>>
           /\ Removable(sorted[1], d)
        THEN [PruneToLimit(state, Remove(sorted[1], d), k)
                 EXCEPT !.victim = <<sorted[1]>>]
        ELSE [dir |-> d, victim |-> <<>>, panic |-> FALSE]

\* The whole step on directory d in state `state`: the directory it
\* leaves, the entry it chose (none: <<>>), and whether files[0] was read
\* of an empty slice (an index-out-of-range panic).
Prune(state, d, k) ==
    LET files  == ReadDir(state, d)
        sorted == SortByName(files)
    IN  IF StatOk(state) /\ OverLimit(files, k)
        THEN IF sorted = <<>>
             THEN [dir |-> d, victim |-> <<>>, panic |-> TRUE]
             ELSE [dir |-> Remove(sorted[1], d), victim |-> <<sorted[1]>>,
                   panic |-> FALSE]
        ELSE [dir |-> d, victim |-> <<>>, panic |-> FALSE]

----------------------------------------------------------------------------
(* The sequential program: calls and writes, one at a time *)

Restrict(f, S) == [n \in S |-> f[n]]

\* A call at instant t, later than every earlier call.  The logger is
\* returned with its file not yet created.
NewLogger(t) ==
    /\ ~panicked
    /\ Before(clock, t)
    /\ LET p == Prune(dirState, dir, maxBackup)
       IN  /\ dir' = p.dir
           /\ content' = Restrict(content, p.dir)
           /\ panicked' = p.panic
           /\ loggers' =
                IF p.panic THEN loggers
                ELSE Append(loggers,
                        [filename |-> FileName(t),
                         open     |-> FALSE,
                         listed   |-> ReadDir(dirState, dir),
                         before   |-> Cardinality(dir),
                         victim   |-> p.victim,
                         removed  |-> dir \ p.dir])
    /\ clock' = t
    /\ UNCHANGED <<maxBackup, logLevel, dirState, console, late, start, race>>

\* In a logger's record, filename and open are the logger's own state.  The
\* other fields are history, written once by the call and read by no action:
\* listed (the entries the call listed), before (how many entries the
\* directory held), victim (the entry passed to os.Remove, <<>> if none) and
\* removed (the entries the call took out of the directory).

\* What a sink keeps of the records it receives: the logger they came
\* through (the encoders differ in colour and year digits only).
Rec(i) == [logger |-> i]

\* logger.Debug / logger.Info on the i-th logger.  A record below logLevel
\* is dropped by both cores.  The console core writes to stdout; the file
\* core writes through lumberjack, which opens (creates) the file on the
\* first write and keeps it open.
Emit(i, lvl) ==
    /\ ~panicked
    /\ i \in 1..Len(loggers)
    /\ IF lvl < logLevel
       THEN UNCHANGED <<dirState, dir, content, console, loggers, late>>
       ELSE LET n == loggers[i].filename
            IN  /\ console' = console \cup {Rec(i)}
                /\ IF ~loggers[i].open
                   THEN /\ dirState' = IF dirState = "absent" THEN "ok" ELSE dirState
                        /\ dir' = dir \cup {n}
                        /\ content' = [m \in dir \cup {n} |->
                                         IF m = n THEN {Rec(i)} ELSE content[m]]
                        /\ loggers' = [loggers EXCEPT ![i].open = TRUE]
                        /\ late' = (late \/ i < Len(loggers))
                   ELSE /\ content' = [m \in dir |->
                                         IF m = n THEN content[m] \cup {Rec(i)}
                                         ELSE content[m]]
                        /\ UNCHANGED <<dirState, dir, loggers, late>>
    /\ UNCHANGED <<maxBackup, logLevel, clock, panicked, start, race>>

\* The directory before the first call: absent, or present with some
\* earlier entries, listable or not.
StartDirs ==
    {[state |-> "absent", entries |-> {}]}
    \cup [state : {"ok"}, entries : SUBSET PreExisting]
    \cup {[state |-> "unlistable", entries |-> {}]}

Idle == [pc |-> "idle"]

Init ==
    /\ maxBackup \in Retentions
    /\ logLevel \in Levels
    /\ start \in StartDirs
    /\ dirState = start.state
    /\ dir = start.entries
    /\ content = [n \in dir |-> {}]
    /\ console = {}
    /\ loggers = <<>>
    /\ clock = Epoch
    /\ panicked = FALSE
    /\ late = FALSE
    /\ race = Idle

Next ==
    \/ \E t \in Instants : Len(loggers) < MaxCalls /\ NewLogger(t)
    \/ \E i \in 1..MaxCalls, lvl \in Levels : Emit(i, lvl)

Spec == Init /\ [][Next]_vars

----------------------------------------------------------------------------
(* The scenario of TestLogger: an empty directory, the same maxBackup on  *)
(* every call, and each logger writing before the next one is made.       *)

\* maxBackup := 3
ScenarioRetention == 3

\* for i := 0; i < 5; i++
ScenarioCalls == 5

AllWritten == \A i \in 1..Len(loggers) : loggers[i].open

ScenarioInit ==
    /\ maxBackup = ScenarioRetention
    /\ logLevel \in Levels
    /\ start = [state |-> "ok", entries |-> {}]
    /\ dirState = "ok"
    /\ dir = {}
    /\ content = [n \in dir |-> {}]
    /\ console = {}
    /\ loggers = <<>>
    /\ clock = Epoch
    /\ panicked = FALSE
    /\ late = FALSE
    /\ race = Idle

ScenarioNext ==
    \/ \E t \in Instants :
          Len(loggers) < ScenarioCalls /\ AllWritten /\ NewLogger(t)
    \/ \E lvl \in Levels : Emit(Len(loggers), lvl)

ScenarioSpec == ScenarioInit /\ [][ScenarioNext]_vars

----------------------------------------------------------------------------
(* Two calls on the same directory, interleaved statement by statement.   *)
(* NewLogger takes no lock: each statement that touches the directory is  *)
(* a step of its own.                                                     *)

Procs == {1, 2}

\* Both calls are made within the span of two seconds.
RaceInstants == {t \in Instants : t.month = 1 /\ t.day = 1}

Field(p, f, v) == race' = [race EXCEPT ![p][f] = v]

\* timestamp := time.Now().Format(...); filename := ...
Begin(p, t) ==
    /\ ~panicked
    /\ race[p].pc = "start"
    /\ t = clock \/ Before(clock, t)
    /\ clock' = t
    /\ race' = [race EXCEPT ![p].pc = "stat", ![p].filename = FileName(t)]
    /\ UNCHANGED <<maxBackup, logLevel, dirState, dir, content, console,
                   loggers, panicked, late, start>>

\* if _, err := os.Stat(filepath); err == nil
StatStep(p) ==
    /\ ~panicked
    /\ race[p].pc = "stat"
    /\ Field(p, "pc", IF StatOk(dirState) THEN "list" ELSE "return")
    /\ UNCHANGED <<maxBackup, logLevel, dirState, dir, content, console,
                   loggers, clock, panicked, late, start>>

\* files, _ := os.ReadDir(filepath)
ListStep(p) ==
    /\ ~panicked
    /\ race[p].pc = "list"
    /\ race' = [race EXCEPT ![p].pc = "check",
                            ![p].files = ReadDir(dirState, dir)]
    /\ UNCHANGED <<maxBackup, logLevel, dirState, dir, content, console,
                   loggers, clock, panicked, late, start>>

\* if len(files) > maxBackup { sort.Slice(...); ... files[0] ... }
CheckStep(p) ==
    /\ ~panicked
    /\ race[p].pc = "check"
    /\ IF OverLimit(race[p].files, maxBackup)
       THEN LET sorted == SortByName(race[p].files)
            IN  IF sorted = <<>>
                THEN /\ Field(p, "pc", "panic")
                     /\ panicked' = TRUE
                ELSE /\ race' = [race EXCEPT ![p].pc = "remove",
                                             ![p].victim = <<sorted[1]>>]
                     /\ UNCHANGED panicked
       ELSE /\ Field(p, "pc", "return")
            /\ UNCHANGED panicked
    /\ UNCHANGED <<maxBackup, logLevel, dirState, dir, content, console,
                   loggers, clock, late, start>>

\* os.Remove(filepath + "/" + files[0].Name())
RemoveStep(p) ==
    /\ ~panicked
    /\ race[p].pc = "remove"
    /\ dir' = Remove(race[p].victim[1], dir)
    /\ content' = Restrict(content, dir')
    /\ race' = [race EXCEPT ![p].pc = "return", ![p].removed = dir \ dir']
    /\ UNCHANGED <<maxBackup, logLevel, dirState, console, loggers, clock,
                   panicked, late, start>>

\* return zap.New(core)
ReturnStep(p) ==
    /\ ~panicked
    /\ race[p].pc = "return"
    /\ Field(p, "pc", "done")
    /\ loggers' = Append(loggers,
                    [filename |-> race[p].filename,
                     open     |-> FALSE,
                     listed   |-> race[p].files,
                     before   |-> Cardinality(race[p].files),
                     victim   |-> race[p].victim,
                     removed  |-> race[p].removed])
    /\ UNCHANGED <<maxBackup, logLevel, dirState, dir, content, console,
                   clock, panicked, late, start>>

RaceInit ==
    /\ maxBackup \in Retentions
    /\ logLevel \in Levels
    /\ start \in StartDirs
    /\ dirState = start.state
    /\ dir = start.entries
    /\ content = [n \in dir |-> {}]
    /\ console = {}
    /\ loggers = <<>>
    /\ clock = Epoch
    /\ panicked = FALSE
    /\ late = FALSE
    /\ race = [p \in Procs |->
                 [pc |-> "start", filename |-> <<>>, files |-> {},
                  victim |-> <<>>, removed |-> {}]]

RaceNext ==
    \E p \in Procs :
        \/ \E t \in RaceInstants : Begin(p, t)
        \/ StatStep(p)
        \/ ListStep(p)
        \/ CheckStep(p)
        \/ RemoveStep(p)
        \/ ReturnStep(p)

RaceSpec == RaceInit /\ [][RaceNext]_vars

----------------------------------------------------------------------------
(* Properties *)

\* The directory was there, listable or not, and empty before the first call.
StartedEmpty == start.state # "absent" /\ start.entries = {}

\* The latest logger.
Latest == loggers[Len(loggers)]

\* The name that sorts first among the names of S (S not empty).
Smallest(S) == CHOOSE n \in S : \A m \in S \ {n} : LexLess(n, m)

\* A step that is a completed NewLogger call.
IsCall == Len(loggers') = Len(loggers) + 1

\* C1 as stated: with maxBackup = k >= 0 and calls in distinct seconds on a
\* directory that existed and was empty (and, to the claim's favour, can be
\* listed), the directory holds at most k + 1 entries after every call and
\* after every write, whenever the loggers write.
C1_BoundedAnyWrites ==
    (maxBackup >= 0 /\ StartedEmpty /\ start.state = "ok")
        => Cardinality(dir) <= maxBackup + 1

\* C1 amended: the bound k + 1 holds after every call and every write when
\* the directory can be listed and every logger that writes writes its
\* first record before the next call is made.
C1_BoundedRetention ==
    (maxBackup >= 0 /\ StartedEmpty /\ start.state = "ok" /\ ~late)
        => Cardinality(dir) <= maxBackup + 1

\* C1's case: the directory is at the bound k + 1 after a call has pruned.
C1_Witness ==
    /\ maxBackup >= 0 /\ StartedEmpty /\ start.state = "ok" /\ ~late
    /\ Cardinality(dir) = maxBackup + 1
    /\ \E i \in 1..Len(loggers) : loggers[i].removed # {}
    /\ \E i \in 1..Len(loggers) : ~loggers[i].open

\* C2 as stated: once a call and its write have completed, the directory
\* holds at most maxBackup log files (checked for maxBackup >= 1, where a
\* maximum of maxBackup files leaves room for the file being written).
C2_AtMostMaxBackupFiles ==
    (/\ maxBackup >= 1 /\ StartedEmpty /\ start.state = "ok" /\ ~late
     /\ Len(loggers) >= 1 /\ AllWritten)
        => Cardinality(dir \cap LogNames) <= maxBackup

\* The scenario has run: five calls, each followed by its write.
ScenarioDone == Len(loggers) = ScenarioCalls /\ AllWritten

\* The files the scenario's calls created that the directory no longer holds.
Absent == {i \in 1..Len(loggers) : loggers[i].filename \notin dir}

\* C3 as stated: after the scenario the directory holds exactly 4 files and
\* the files of the 1st and the 2nd call are both absent.
C3_FirstTwoAbsent ==
    ScenarioDone =>
        /\ Cardinality(dir) = ScenarioRetention + 1
        /\ loggers[1].filename \notin dir
        /\ loggers[2].filename \notin dir

\* C3 amended: after the scenario the directory holds exactly 4 files;
\* exactly one of the five files created is absent, the one whose name
\* sorts first among the four the 5th call listed, and it was removed by
\* the 5th call.
C3_ExactlyOneAbsent ==
    ScenarioDone =>
        /\ Cardinality(dir) = ScenarioRetention + 1
        /\ Cardinality(Absent) = 1
        /\ \A i \in Absent :
              /\ i < ScenarioCalls
              /\ \A j \in 1..(ScenarioCalls - 1) :
                    j # i => LexLess(loggers[i].filename, loggers[j].filename)
              /\ Latest.removed = {loggers[i].filename}
        /\ \A i \in 1..(ScenarioCalls - 1) : loggers[i].removed = {}

\* C3's case: the scenario has run and the file of the 1st call is the one
\* that is absent.
C3_Witness == ScenarioDone /\ Absent = {1}

\* C4: a call that finds a listable directory whose entries are all log
\* file names, more of them than maxBackup (>= 0), removes exactly one
\* entry, the one whose name sorts first, and leaves every other in place.
C4_OldestFirstEviction ==
    [][(/\ IsCall
        /\ maxBackup >= 0
        /\ dirState = "ok"
        /\ dir \subseteq LogNames
        /\ Cardinality(dir) > maxBackup)
         => /\ dir' = dir \ {Smallest(dir)}
            /\ Cardinality(dir') = Cardinality(dir) - 1]_vars

\* C4's case: a call listed two or more entries, all log files and more
\* than maxBackup, and removed one.
C4_Witness ==
    /\ maxBackup >= 0
    /\ \E i \in 1..Len(loggers) :
          /\ loggers[i].listed \subseteq LogNames
          /\ Cardinality(loggers[i].listed) >= 2
          /\ Cardinality(loggers[i].listed) > maxBackup
          /\ Cardinality(loggers[i].removed) = 1

\* C5 as stated: calls made at different seconds, in this order, produce
\* distinct names and the earlier call's name sorts before the later's.
C5_NamesFollowCallOrder ==
    \A i, j \in 1..Len(loggers) :
        i < j => LexLess(loggers[i].filename, loggers[j].filename)

\* C6 as stated: no call panics, whatever the directory and maxBackup are,
\* and a call whose listing failed removes nothing.
C6_NeverFails ==
    /\ ~panicked
    /\ \A i \in 1..Len(loggers) :
          (start.state = "unlistable") => loggers[i].removed = {}

\* C7 as stated (for maxBackup >= 0): every record a logger accepted is on
\* the console and in that logger's file in the directory, whatever calls
\* follow.
C7_DualSink ==
    maxBackup >= 0 =>
        \A i \in 1..Len(loggers) :
            Rec(i) \in console =>
                /\ loggers[i].filename \in dir
                /\ Rec(i) \in content[loggers[i].filename]

\* C8: pruning counts and sorts all entries: whenever a call finds a
\* listable directory with more entries than maxBackup (>= 0), log files or
\* not, the entry it passes to os.Remove is the smallest name of all; when
\* that is not a log file, no log file is removed.
C8_AllEntriesConsidered ==
    [][(/\ IsCall
        /\ maxBackup >= 0
        /\ dirState = "ok"
        /\ Cardinality(dir) > maxBackup)
         => /\ loggers'[Len(loggers')].victim = <<Smallest(dir)>>
            /\ Smallest(dir) \notin LogNames
                  => (dir \cap LogNames) \subseteq dir']_vars

\* C8's case: the log files alone were within the limit, the other entries
\* put the directory over it, and the call chose one that is not a log file.
C8_Witness ==
    /\ maxBackup >= 0
    /\ \E i \in 1..Len(loggers) :
          /\ loggers[i].listed \cap LogNames # {}
          /\ Cardinality(loggers[i].listed \cap LogNames) <= maxBackup
          /\ loggers[i].victim # <<>>
          /\ loggers[i].victim[1] \in Foreign

\* C10 as stated: no call removes more than one entry, and when a call
\* found m > maxBackup + 1 entries and its logger has then written its
\* first record, the directory holds m entries again.
C10_NeverShrinks ==
    /\ \A i \in 1..Len(loggers) : Cardinality(loggers[i].removed) <= 1
    /\ (/\ maxBackup >= 0 /\ ~late /\ Len(loggers) >= 1
        /\ Latest.open /\ Latest.before > maxBackup + 1)
         => Cardinality(dir) = Latest.before

\* C10 amended: the same, when the call could list the directory and the
\* entry it chose can be removed (is not a subdirectory with entries).
C10_NeverShrinksWhenRemovable ==
    /\ \A i \in 1..Len(loggers) : Cardinality(loggers[i].removed) <= 1
    /\ (/\ maxBackup >= 0 /\ ~late /\ Len(loggers) >= 1
        /\ Latest.open /\ Latest.before > maxBackup + 1
        /\ Latest.victim # <<>> /\ Latest.victim[1] \notin NonEmptyDirs)
         => Cardinality(dir) = Latest.before

\* C10's case: a call found the directory two or more over the limit, and
\* its logger has written.
C10_Witness ==
    /\ maxBackup >= 0 /\ ~late /\ Len(loggers) >= 1
    /\ Latest.open /\ Latest.before > maxBackup + 2
    /\ Latest.victim # <<>> /\ Latest.victim[1] \notin NonEmptyDirs
    /\ Cardinality(dir) = Latest.before

\* C9: two interleaved calls with maxBackup >= 0: neither panics, each
\* removes at most one entry, and nothing leaves the directory but what the
\* two calls removed.
C9_RaceAtMostOneEach ==
    maxBackup >= 0 =>
        /\ ~panicked
        /\ \A p \in Procs :
              /\ race[p].pc # "panic"
              /\ Cardinality(race[p].removed) <= 1
              /\ race[p].removed \subseteq race[p].files
        /\ start.entries \ dir = UNION {race[p].removed : p \in Procs}
        /\ dir \subseteq start.entries

\* C9's case: both calls passed the check with the same first entry; one
\* removed it and the other's os.Remove failed, unnoticed, and both returned.
C9_Witness ==
    /\ maxBackup >= 0
    /\ \A p \in Procs : race[p].pc = "done" /\ race[p].victim # <<>>
    /\ race[1].victim = race[2].victim
    /\ \E p, q \in Procs :
          race[p].removed = {race[1].victim[1]} /\ race[q].removed = {}

\* The other outcome of the race: both calls passed the check and removed
\* two different entries.
RaceTwoDifferent ==
    /\ maxBackup >= 0
    /\ \A p \in Procs : race[p].pc = "done" /\ Cardinality(race[p].removed) = 1
    /\ race[1].removed # race[2].removed

====
